---- MODULE Spec2Model ----
(***************************************************************************)
(* Model of the infrastructure declared by src/pulumi/index.ts: an ECS     *)
(* cluster on an EC2 auto-scaling group running one nginx service.         *)
(*                                                                         *)
(* The program is declarative: every number and flag below is read from    *)
(* the source, and the actions are the documented behaviour of the engines *)
(* those values configure (EC2 Auto Scaling, the ECS service scheduler and *)
(* agent, the Docker health check, the Pulumi engine).                     *)
(***************************************************************************)
EXTENDS Integers, Sequences, FiniteSets, TLC

(* ---------------------------- bounds of the model ---------------------- *)
MaxInstanceId == 2
MaxTasks == 3
MaxRevision == 2
MaxStreak == 3

(* ------------------------- values set by the source -------------------- *)
\* templateParameters: { minSize: 1, maxSize: 2 }
minSize == 1
maxSizeLoose == 2 + 1
maxSize == 2
\* scaleToTrackMetric targetValue
targetValue == 80
\* service
desiredCount == 1
deploymentMinimumHealthyPercent == 0
deploymentMaximumPercentDouble == 2 * 100
deploymentMaximumPercent == 100
\* task definition
networkMode == "host"
hostPort == 80
memoryReservationHuge == 4 * 256
memoryReservation == 256
\* healthCheck
retriesTwo == 3 - 1
retries == 3
\* boot script: ECS_RESERVED_MEMORY
ECS_RESERVED_MEMORY == 256
\* instanceType 't2.micro': 1 GiB of memory
InstanceMemoryMiB == 1024

InstanceIds == 1..MaxInstanceId
TaskIds == 1..MaxTasks
\* Samples of the Average MemoryReservation metric, in percent.
MetricValues == {40, 80, 81}

NoTask == [status |-> "NONE"]

VARIABLES
    asgDesired,   \* desired capacity of the auto-scaling group
    instances,    \* instances in service, registered with the cluster
    instanceSgs,  \* instance -> security groups attached at launch
    metric,       \* last sample of the tracked metric
    tasks,        \* task id -> task of the service, or NoTask
    serviceRev,   \* task definition revision the service deploys
    lastOp,       \* name of the last operation taken
    pc,           \* position of the program in its resource declarations
    created,      \* resources the engine has created in this run, in order
    upRun,        \* how many times the deployment has been run
    randomResult, \* stored result of the random string, <<>> before creation
    userDataCluster, \* ECS_CLUSTER of the boot script in the launch configuration
    clusterResName,  \* name of the cluster resource
    booted        \* ECS_CLUSTER values written to instances at boot

runtimeVars == <<asgDesired, instances, instanceSgs, metric, tasks, serviceRev, lastOp>>
deployVars == <<pc, created, upRun, randomResult, userDataCluster, clusterResName, booted>>
vars == <<runtimeVars, deployVars>>

(* ------------------------------ security groups ------------------------ *)
AnyIpv4 == "0.0.0.0/0"

\* A plausible slip: the egress range written as the ingress rule.
instancesIngressWide ==
    {[fromPort |-> 0, toPort |-> 65535, protocol |-> "tcp", cidr |-> AnyIpv4]}

\* ingress of 'dev-instances-sg'
instancesIngress ==
    {[fromPort |-> 80, toPort |-> 80, protocol |-> "tcp", cidr |-> AnyIpv4]}

\* Ingress of the cluster's default security group, as the library's
\* createDefaultSecurityGroup declares it: ssh and every tcp port.
clusterDefaultIngress ==
    {[fromPort |-> 22, toPort |-> 22, protocol |-> "tcp", cidr |-> AnyIpv4],
     [fromPort |-> 0, toPort |-> 65535, protocol |-> "tcp", cidr |-> AnyIpv4]}

Ingress(sg) ==
    IF sg = "instancesSecurityGroup" THEN instancesIngress ELSE clusterDefaultIngress

\* launchConfigurationArgs.securityGroups
launchSecurityGroups == {"instancesSecurityGroup"}

\* Every inbound rule in force on an instance.
InstanceIngress(i) == UNION {Ingress(sg) : sg \in instanceSgs[i]}

(* ------------------------------ helpers -------------------------------- *)
Live == {t \in TaskIds : tasks[t].status # "NONE"}
Active == {t \in Live : tasks[t].status \in {"PENDING", "RUNNING"}}
Running == {t \in Live : tasks[t].status = "RUNNING"}
\* Tasks whose container exists on the instance: it holds what it bound.
OnInstance(i) == {t \in Live : tasks[t].inst = i}
Containers(i) == {t \in OnInstance(i) : tasks[t].status \in {"RUNNING", "STOPPING"}}

\* The design the source's comments set aside: bridge mode, hostPort zero.
StaticPortBridged == "bridge" = "host" \/ 0 # 0

\* A fixed host port is bound in the host's namespace: one holder per host.
StaticPort == networkMode = "host" \/ hostPort # 0

\* A deployment is in progress while a task of an earlier revision is left.
InDeployment == \E t \in Live : tasks[t].rev # serviceRev
\* Tasks the deployment's upper limit counts: RUNNING, STOPPING and PENDING
\* during a deployment, RUNNING and PENDING otherwise.
Counted == IF InDeployment THEN Live ELSE Active

\* floor(desiredCount * maximumPercent / 100): the most tasks RUNNING or PENDING
MaxActive == (desiredCount * deploymentMaximumPercent) \div 100
\* ceil(desiredCount * minimumHealthyPercent / 100)
MinHealthy == (desiredCount * deploymentMinimumHealthyPercent + 99) \div 100

\* Memory an instance offers to tasks, and what is left of it.
Registered == InstanceMemoryMiB - ECS_RESERVED_MEMORY
ReservedOn(i) == memoryReservation * Cardinality({t \in OnInstance(i) : tasks[t].status # "STOPPING"})
Fits(i) ==
    /\ Registered - ReservedOn(i) >= memoryReservation
    /\ StaticPort => {t \in OnInstance(i) : tasks[t].status \in {"PENDING", "RUNNING"}} = {}

\* orderedPlacementStrategies: spread on instanceId
Spread(i) ==
    \A j \in instances : Fits(j) =>
        Cardinality(OnInstance(i) \cap Active) <= Cardinality(OnInstance(j) \cap Active)

FreeTaskId == CHOOSE t \in TaskIds : tasks[t].status = "NONE" /\ \A u \in TaskIds : u < t => tasks[u].status # "NONE"

NewTask(i) ==
    [status |-> "PENDING", inst |-> i, rev |-> serviceRev,
     streak |-> 0, health |-> "UNKNOWN", hist |-> <<>>]

(* ------------------------------ auto scaling --------------------------- *)
Min(a, b) == IF a < b THEN a ELSE b
Max(a, b) == IF a > b THEN a ELSE b

\* Capacities the policy may set for a sample m of the metric: out above
\* the target; below it, in or (within the engine's margin) no change;
\* never outside [minSize, maxSize].
TrackedFromTarget(m, n) ==
    IF m >= targetValue THEN {Min(n + 1, maxSize)}
    ELSE {n, Max(n - 1, minSize)}

Tracked(m, n) ==
    IF m > targetValue THEN {Min(n + 1, maxSize)}
    ELSE IF m < targetValue THEN {n, Max(n - 1, minSize)}
    ELSE {n}

\* asg.scaleToTrackMetric: one evaluation of the tracking policy
ScaleToTrackMetric(m) ==
    /\ metric' = m
    /\ asgDesired' \in Tracked(m, asgDesired)
    /\ lastOp' = "policy"
    /\ UNCHANGED <<instances, instanceSgs, tasks, serviceRev, deployVars>>

\* The group launches an instance from the launch configuration.
LaunchInstance(i) ==
    /\ i \notin instances
    /\ \A j \in InstanceIds : j < i => j \in instances
    /\ Cardinality(instances) < asgDesired
    /\ instances' = instances \cup {i}
    /\ instanceSgs' = [instanceSgs EXCEPT ![i] = launchSecurityGroups]
    /\ lastOp' = "launch"
    /\ UNCHANGED <<asgDesired, metric, tasks, serviceRev, deployVars>>

\* The group terminates an instance; its tasks stop with it.
TerminateInstance(i) ==
    /\ i \in instances
    /\ Cardinality(instances) > asgDesired
    /\ instances' = instances \ {i}
    /\ instanceSgs' = [instanceSgs EXCEPT ![i] = {}]
    /\ tasks' = [t \in TaskIds |->
                   IF tasks[t].status # "NONE" /\ tasks[t].inst = i THEN NoTask ELSE tasks[t]]
    /\ lastOp' = "terminate"
    /\ UNCHANGED <<asgDesired, metric, serviceRev, deployVars>>

(* ------------------------------ service scheduler ---------------------- *)
\* The scheduler places a task of the deployed revision.
PlaceTask(i) ==
    /\ i \in instances
    /\ \E t \in TaskIds : tasks[t].status = "NONE"
    /\ Cardinality({t \in Active : tasks[t].rev = serviceRev}) < desiredCount
    /\ Cardinality(Counted) < MaxActive
    /\ Fits(i)
    /\ Spread(i)
    /\ tasks' = [tasks EXCEPT ![FreeTaskId] = NewTask(i)]
    /\ lastOp' = "place"
    /\ UNCHANGED <<asgDesired, instances, instanceSgs, metric, serviceRev, deployVars>>

\* The agent starts the container once the host port is free.
StartTask(t) ==
    /\ tasks[t].status = "PENDING"
    /\ StaticPort => Containers(tasks[t].inst) = {}
    /\ tasks' = [tasks EXCEPT ![t].status = "RUNNING"]
    /\ lastOp' = "start"
    /\ UNCHANGED <<asgDesired, instances, instanceSgs, metric, serviceRev, deployVars>>

Halt(t) ==
    IF tasks[t].status = "RUNNING"
    THEN [tasks EXCEPT ![t].status = "STOPPING"]
    ELSE [tasks EXCEPT ![t] = NoTask]

\* A rollout stops a task of an earlier revision.
StopOld(t) ==
    /\ t \in Active
    /\ tasks[t].rev # serviceRev
    /\ Cardinality(Running \ {t}) >= MinHealthy
    /\ tasks' = Halt(t)
    /\ lastOp' = "stopOld"
    /\ UNCHANGED <<asgDesired, instances, instanceSgs, metric, serviceRev, deployVars>>

\* The scheduler stops a task whose container is unhealthy.
StopUnhealthy(t) ==
    /\ tasks[t].status = "RUNNING"
    /\ tasks[t].health = "UNHEALTHY"
    /\ tasks' = Halt(t)
    /\ lastOp' = "stopUnhealthy"
    /\ UNCHANGED <<asgDesired, instances, instanceSgs, metric, serviceRev, deployVars>>

\* A stopping container has exited.
TaskStopped(t) ==
    /\ tasks[t].status = "STOPPING"
    /\ tasks' = [tasks EXCEPT ![t] = NoTask]
    /\ lastOp' = "stopped"
    /\ UNCHANGED <<asgDesired, instances, instanceSgs, metric, serviceRev, deployVars>>

\* nginx exits on its own: the task stops.
TaskExit(t) ==
    /\ tasks[t].status = "RUNNING"
    /\ tasks' = [tasks EXCEPT ![t] = NoTask]
    /\ lastOp' = "exit"
    /\ UNCHANGED <<asgDesired, instances, instanceSgs, metric, serviceRev, deployVars>>

\* A new task definition revision is deployed to the service.
Rollout ==
    /\ serviceRev < MaxRevision
    /\ serviceRev' = serviceRev + 1
    /\ lastOp' = "rollout"
    /\ UNCHANGED <<asgDesired, instances, instanceSgs, metric, tasks, deployVars>>

(* ------------------------------ health check --------------------------- *)
\* The results of the last three probes.
Keep(h) == IF Len(h) > 3 THEN SubSeq(h, Len(h) - 2, Len(h)) ELSE h

\* One run of 'curl --fail http://localhost || exit 1' in the container.
Probed(task, ok) ==
    IF ok
    THEN [task EXCEPT !.streak = 0, !.health = "HEALTHY",
                      !.hist = Keep(Append(task.hist, TRUE))]
    ELSE [task EXCEPT !.streak = task.streak + 1,
                      !.health = IF task.streak + 1 >= retries THEN "UNHEALTHY" ELSE task.health,
                      !.hist = Keep(Append(task.hist, FALSE))]

HealthCheck(t, ok) ==
    /\ tasks[t].status = "RUNNING"
    /\ ok \/ tasks[t].streak < MaxStreak
    /\ tasks' = [tasks EXCEPT ![t] = Probed(tasks[t], ok)]
    /\ lastOp' = "probe"
    /\ UNCHANGED <<asgDesired, instances, instanceSgs, metric, serviceRev, deployVars>>

(* ------------------------------ deployment ----------------------------- *)
MaxUps == 2

\* const clusterName
clusterName == <<"d", "e", "v", "-", "c", "l", "u", "s", "t", "e", "r">>

\* RandomString arguments; lower and number keep the provider's default.
special == FALSE
upperDefault == TRUE
upper == FALSE
lower == TRUE
number == TRUE
length == 6

LowerLetters == {"a", "b", "c", "d", "e", "f", "g", "h", "i", "j", "k", "l", "m",
                 "n", "o", "p", "q", "r", "s", "t", "u", "v", "w", "x", "y", "z"}
Digits == {"0", "1", "2", "3", "4", "5", "6", "7", "8", "9"}
\* Representative characters of each class.
LowerSample == {"k"}
DigitSample == {"7"}
UpperSample == {"Q"}
SpecialSample == {"!"}

\* The characters the random string is drawn from.
Charset ==
    (IF lower THEN LowerSample ELSE {}) \cup (IF upper THEN UpperSample ELSE {})
    \cup (IF number THEN DigitSample ELSE {}) \cup (IF special THEN SpecialSample ELSE {})

\* Every result the random string resource can produce.
RandomStrings == [1..length -> Charset]

\* .result.apply(s => `${clusterName}-` + s)
ClusterIdentifier(s) == (clusterName \o <<"-">>) \o s

\* A slip: the boot script written with the base name.
ExtraBootcmdClusterBase(clusterId) == clusterName

\* extraBootcmdLines: the cluster the agent checks into
ExtraBootcmdCluster(clusterId) == clusterId

\* The resources in the order the program declares them.
ProgramOrderSwapped ==
    <<"vpc", "randomString", "clusterSecurityGroup", "instancesSecurityGroup",
      "capacityProvider", "asg", "cluster", "scalingPolicy", "taskDefinition", "service">>

ProgramOrder ==
    <<"vpc", "randomString", "clusterSecurityGroup", "instancesSecurityGroup",
      "asg", "capacityProvider", "cluster", "scalingPolicy", "taskDefinition", "service">>

Resources == {ProgramOrder[k] : k \in 1..Len(ProgramOrder)}

\* The resources whose identifiers, ARNs or outputs a declaration reads.
Consumes(r) ==
    CASE r = "clusterSecurityGroup" -> {"vpc"}
      [] r = "instancesSecurityGroup" -> {"vpc"}
      [] r = "asg" -> {"vpc", "instancesSecurityGroup", "randomString"}
      [] r = "capacityProvider" -> {"asg"}
      [] r = "cluster" -> {"randomString", "vpc", "capacityProvider", "clusterSecurityGroup"}
      [] r = "scalingPolicy" -> {"asg", "cluster"}
      [] r = "service" -> {"cluster", "taskDefinition", "capacityProvider"}
      [] OTHER -> {}

RECURSIVE Closure(_, _)
Closure(S, n) ==
    IF n = 0 THEN S ELSE Closure(S \cup UNION {Consumes(r) : r \in S}, n - 1)

\* Everything a resource depends on, directly or through others.
Upstream(r) == Closure(Consumes(r), Cardinality(Resources))

Declared == {ProgramOrder[k] : k \in 1..(pc - 1)}
Created == {created[k] : k \in 1..Len(created)}

\* The program declares its next resource.
Declare ==
    /\ pc <= Len(ProgramOrder)
    /\ pc' = pc + 1
    /\ UNCHANGED <<created, upRun, randomResult, userDataCluster, clusterResName, booted>>
    /\ UNCHANGED runtimeVars

\* The engine creates (first run) or refreshes (later runs) a declared
\* resource once everything it reads is resolved.
CreateResource(r) ==
    /\ r \in Declared
    /\ r \notin Created
    /\ Consumes(r) \subseteq Created
    /\ created' = Append(created, r)
    /\ IF r = "randomString" /\ randomResult = <<>>
       THEN randomResult' \in RandomStrings
       ELSE UNCHANGED randomResult
    /\ IF r = "asg"
       THEN userDataCluster' = ExtraBootcmdCluster(ClusterIdentifier(randomResult))
       ELSE UNCHANGED userDataCluster
    /\ IF r = "cluster"
       THEN clusterResName' = ClusterIdentifier(randomResult)
       ELSE UNCHANGED clusterResName
    /\ UNCHANGED <<pc, upRun, booted>>
    /\ UNCHANGED runtimeVars

\* The deployment is run again on the unchanged program.
Update ==
    /\ pc = Len(ProgramOrder) + 1
    /\ Created = Resources
    /\ upRun < MaxUps
    /\ upRun' = upRun + 1
    /\ pc' = 1
    /\ created' = <<>>
    /\ UNCHANGED <<randomResult, userDataCluster, clusterResName, booted>>
    /\ UNCHANGED runtimeVars

\* The group boots an instance: the boot script writes ecs.config.
BootInstance ==
    /\ userDataCluster # <<>>
    /\ booted' = booted \cup {userDataCluster}
    /\ UNCHANGED <<pc, created, upRun, randomResult, userDataCluster, clusterResName>>
    /\ UNCHANGED runtimeVars

InitDeploy ==
    /\ asgDesired = minSize
    /\ instances = {}
    /\ instanceSgs = [i \in InstanceIds |-> {}]
    /\ metric = 0
    /\ tasks = [t \in TaskIds |-> NoTask]
    /\ serviceRev = 1
    /\ lastOp = "init"
    /\ pc = 1
    /\ created = <<>>
    /\ upRun = 1
    /\ randomResult = <<>>
    /\ userDataCluster = <<>>
    /\ clusterResName = <<>>
    /\ booted = {}

NextDeploy ==
    \/ Declare
    \/ \E r \in Resources : CreateResource(r)
    \/ Update
    \/ BootInstance

SpecDeploy == InitDeploy /\ [][NextDeploy]_vars

(* ------------------------------ specification -------------------------- *)
Init ==
    /\ asgDesired = minSize
    /\ instances = 1..minSize
    /\ instanceSgs = [i \in InstanceIds |-> IF i \in 1..minSize THEN launchSecurityGroups ELSE {}]
    /\ metric = 0
    /\ tasks = [t \in TaskIds |-> NoTask]
    /\ serviceRev = 1
    /\ lastOp = "init"
    /\ pc = Len(ProgramOrder) + 1
    /\ created = ProgramOrder
    /\ upRun = 1
    /\ randomResult = [k \in 1..length |-> "k"]
    /\ userDataCluster = ClusterIdentifier(randomResult)
    /\ clusterResName = ClusterIdentifier(randomResult)
    /\ booted = {}

Next ==
    \/ \E m \in MetricValues : ScaleToTrackMetric(m)
    \/ \E i \in InstanceIds : LaunchInstance(i)
    \/ \E i \in InstanceIds : TerminateInstance(i)
    \/ \E i \in InstanceIds : PlaceTask(i)
    \/ \E t \in TaskIds : StartTask(t)
    \/ \E t \in TaskIds : StopOld(t)
    \/ \E t \in TaskIds : StopUnhealthy(t)
    \/ \E t \in TaskIds : TaskStopped(t)
    \/ \E t \in TaskIds : TaskExit(t)
    \/ \E t \in TaskIds, ok \in BOOLEAN : HealthCheck(t, ok)
    \/ Rollout

Spec == Init /\ [][Next]_vars

\* The orchestrator keeps scheduling: the scheduler, the agent and the
\* group each act when they can.
Fairness ==
    /\ SF_vars(\E i \in InstanceIds : PlaceTask(i))
    /\ SF_vars(\E t \in TaskIds : StartTask(t))
    /\ WF_vars(\E t \in TaskIds : StopOld(t))
    /\ WF_vars(\E t \in TaskIds : StopUnhealthy(t))
    /\ WF_vars(\E t \in TaskIds : TaskStopped(t))
    /\ WF_vars(\E i \in InstanceIds : LaunchInstance(i))

SpecLive == Spec /\ Fairness

(* ------------------------------ properties ----------------------------- *)

\* C1: during a rollout the old task is stopped before its replacement
\* starts: no task of an earlier revision that is still RUNNING or STOPPING
\* exists together with a PENDING or RUNNING task of a later revision.
C1_OldStoppedBeforeReplacement ==
    \A t \in Live : \A u \in Active : tasks[t].rev >= tasks[u].rev

C1_Witness ==
    /\ lastOp = "stopOld"
    /\ \E t \in Live : tasks[t].status = "STOPPING" /\ tasks[t].rev < serviceRev
    /\ Cardinality(instances) = 2

\* C2: on every instance at most one container of the service exists
\* (RUNNING or STOPPING), so host port 80 has at most one holder.
C2_OneTaskPerInstance ==
    \A i \in InstanceIds : Cardinality(Containers(i)) <= 1

C2_Witness ==
    /\ lastOp = "start"
    /\ \E i \in instances :
         /\ Cardinality(Containers(i)) = 1
         /\ \E t \in Containers(i) : tasks[t].rev = 2

\* C3: the group's desired capacity and its number of instances are
\* at least 1 and at most 2.
C3_GroupSizeInRange ==
    /\ asgDesired \in 1..2
    /\ Cardinality(instances) \in 1..2

C3_Witness ==
    /\ lastOp = "policy"
    /\ metric > 80
    /\ asgDesired = 2
    /\ Cardinality(instances) = 2

C8_UnhealthyAfterThreeFailures ==
    \A t \in Live :
        LET h == tasks[t].hist
            n == Len(h)
            lastThreeFailed == n >= 3 /\ ~h[n] /\ ~h[n - 1] /\ ~h[n - 2]
        IN  tasks[t].health = "UNHEALTHY" <=> lastThreeFailed

C8_Witness ==
    /\ lastOp = "probe"
    /\ \E t \in Running :
         /\ tasks[t].health = "UNHEALTHY"
         /\ tasks[t].hist = <<FALSE, FALSE, FALSE>>

\* C9: whenever no task runs, or the running task is unhealthy, the service
\* eventually has exactly one task running that is not unhealthy.
C9_NeedsReplacement ==
    \/ Running = {}
    \/ \E t \in Running : tasks[t].health = "UNHEALTHY"

C9_OneRunning ==
    /\ Cardinality(Running) = 1
    /\ \A t \in Running : tasks[t].health # "UNHEALTHY"

C6_ClusterNamePattern ==
    clusterResName # <<>> =>
        /\ Len(clusterResName) = 18
        /\ SubSeq(clusterResName, 1, 12) =
             <<"d", "e", "v", "-", "c", "l", "u", "s", "t", "e", "r", "-">>
        /\ \A k \in 13..18 : clusterResName[k] \in LowerLetters \cup Digits

C6_Witness ==
    /\ clusterResName # <<>>
    /\ clusterResName[13] \in Digits
    /\ clusterResName[18] \in LowerLetters

\* C7: once generated the random result never changes, across updates too,
\* and the ECS_CLUSTER of the boot script, the value written to every booted
\* instance and the name of the cluster resource are the same string.
C7_SameName ==
    /\ (userDataCluster # <<>> /\ clusterResName # <<>>) => userDataCluster = clusterResName
    /\ clusterResName # <<>> => \A b \in booted : b = clusterResName
    /\ userDataCluster # <<>> => userDataCluster = ClusterIdentifier(randomResult)

C7_StableIdentifier ==
    /\ []C7_SameName
    /\ [][randomResult # <<>> => randomResult' = randomResult]_vars
    /\ [][clusterResName # <<>> => clusterResName' = clusterResName]_vars

C7_Witness ==
    /\ upRun = 2
    /\ {"asg", "cluster"} \subseteq Created
    /\ booted # {}

\* C10: resources are created top-down: each is declared after, and
\* created after, every resource it consumes, and no resource depends on
\* itself through others.
C10_TopDown ==
    /\ \A k \in 1..Len(created) : Consumes(created[k]) \subseteq {created[j] : j \in 1..(k - 1)}
    /\ \A r \in Declared : Consumes(r) \subseteq Declared
    /\ \A r \in Resources : r \notin Upstream(r)

C10_Witness ==
    /\ Len(created) = 10
    /\ created[10] \in {"service", "scalingPolicy"}
    /\ upRun = 1

====
